---- MODULE Spec2Model ----
(***************************************************************************)
(* Model of the command parsing layer of zetas8.6.py:                      *)
(*   - MultiCommandProcessor.parse_commands, the '+' splitter, one action  *)
(*     per iteration of its for loop;                                      *)
(*   - AliasManager: the alias table, its persisted file, add / remove /   *)
(*     clear-all and expand_alias.                                         *)
(* Strings are sequences of one-character strings.  In the alias part a    *)
(* string is a sequence of symbols: " " is a whitespace character and any  *)
(* other symbol is a non-empty run of non-whitespace characters.           *)
(***************************************************************************)
EXTENDS Integers, Sequences, FiniteSets, TLC

VARIABLES
    pc,               \* which routine the model is in: "scan", "done", "alias", "expand"
    command_string,   \* parse_commands: the input line
    i,                \* parse_commands: number of loop iterations completed
    commands,         \* parse_commands: segments emitted so far
    current_command,  \* parse_commands: characters of the segment being built
    in_quotes,        \* parse_commands: inside a quoted region
    quote_char,       \* parse_commands: the quote that opened the region, or "None"
    skip_next,        \* parse_commands: the next character was already consumed
    aliases,          \* AliasManager.aliases: name -> replacement
    aliases_file,     \* ~/.zetas_aliases: [state: absent | corrupt | ok, data: table]
    save_warned,      \* the last _save_aliases printed its failure warning
    op,               \* the last AliasManager operation called
    op_name,          \* its name argument
    ret,              \* its return value
    command,          \* expand_alias: the argument
    expanded,         \* expand_alias: the returned string
    args,             \* parse_args: the argv tokens, sys.argv[1:]
    fs,               \* the file system: path -> none | dir | file | xfile | special
    arg_i,            \* parse_args: the loop index i
    result,           \* parse_args: the six buckets; parsed_args of execute_in_order
    cat_i,            \* execute_in_order: categories of execution_sequence finished
    item_i,           \* execute_in_order: items of the current category finished
    results,          \* execute_in_order: the result list
    handled,          \* the handler calls made so far, in order
    config,           \* config.data: interface_mode and enable_bash_syntax
    fs0,              \* history: the file system when parse_args classified args
    user_input,       \* run_interactive: the stripped line being processed
    last_input,       \* what the last input() call returned or raised
    reads,            \* number of input() calls made
    command_history,  \* ConsoleInterface.command_history
    history_file,     \* ~/.zetas_history: [state, lines]
    history_saves,    \* history: the outcomes of the _save_history calls made
    mc_commands,      \* execute_commands: the list returned by parse_commands
    mc_i,             \* execute_commands: sub-commands passed by its loop
    mc_results,       \* execute_commands: its result list
    summary,          \* execute_commands: the summary printed, or "None"
    dispatched        \* history: the calls of _process_single_command for the line

vars == <<pc, command_string, i, commands, current_command, in_quotes,
          quote_char, skip_next, aliases, aliases_file, save_warned, op,
          op_name, ret, command, expanded, args, fs, arg_i, result, cat_i,
          item_i, results, handled, config, fs0, user_input, last_input, reads,
          command_history, history_file, history_saves, mc_commands, mc_i, mc_results,
          summary, dispatched>>

split_vars == <<command_string, i, commands, current_command, in_quotes,
                quote_char, skip_next>>

alias_vars == <<aliases, aliases_file, save_warned, op, op_name, ret>>

expand_vars == <<command, expanded>>

argv_vars == <<args, fs, arg_i, result, cat_i, item_i, results, handled, config,
               fs0>>

console_vars == <<user_input, last_input, reads, command_history, history_file, history_saves,
                  mc_commands, mc_i, mc_results, summary, dispatched>>

(***************************************************************************)
(* Bounds                                                                  *)
(***************************************************************************)
MaxLen == 4

MaxCmdLen == 3

MaxArgs == 3

MaxReads == 2

(***************************************************************************)
(* Strings                                                                 *)
(***************************************************************************)
Char == {"a", "b", " ", "+", "\\", "'", "\""}

SeqsUpTo(S, n) == UNION {[1..k -> S] : k \in 0..n}

Lines == SeqsUpTo(Char, MaxLen)

IsSpace(c) == c = " "

RECURSIVE lstrip(_)
lstrip(s) ==
    IF s = <<>> THEN <<>>
    ELSE IF IsSpace(Head(s)) THEN lstrip(Tail(s)) ELSE s

RECURSIVE rstrip(_)
rstrip(s) ==
    IF s = <<>> THEN <<>>
    ELSE IF IsSpace(s[Len(s)]) THEN rstrip(SubSeq(s, 1, Len(s) - 1)) ELSE s

\* Mutant: only leading whitespace is removed.
strip_leading_only(s) == lstrip(s)

\* str.strip()
strip(s) == rstrip(lstrip(s))

(***************************************************************************)
(* MultiCommandProcessor.parse_commands                                    *)
(***************************************************************************)
parse_locals_init ==
    [commands |-> <<>>, current_command |-> <<>>, in_quotes |-> FALSE,
     quote_char |-> "None", skip_next |-> FALSE]

\* Mutant: '+' splits inside a quoted region too.
parse_commands_iter_noquote(st, s, k) ==
    LET char == s[k] IN
    IF st.skip_next
    THEN [st EXCEPT !.skip_next = FALSE,
                    !.current_command = Append(st.current_command, char)]
    ELSE IF char = "\\" /\ k < Len(s)
    THEN [st EXCEPT !.current_command = Append(st.current_command, s[k + 1]),
                    !.skip_next = TRUE]
    ELSE IF char \in {"\"", "'"}
    THEN IF ~st.in_quotes
         THEN [st EXCEPT !.in_quotes = TRUE, !.quote_char = char,
                         !.current_command = Append(st.current_command, char)]
         ELSE IF st.quote_char = char
         THEN [st EXCEPT !.in_quotes = FALSE, !.quote_char = "None",
                         !.current_command = Append(st.current_command, char)]
         ELSE [st EXCEPT !.current_command = Append(st.current_command, char)]
    ELSE IF char = "+"
    THEN IF st.current_command # <<>>
         THEN [st EXCEPT !.commands = Append(st.commands, strip(st.current_command)),
                         !.current_command = <<>>]
         ELSE st
    ELSE [st EXCEPT !.current_command = Append(st.current_command, char)]

\* Mutant: the character after a backslash goes through the quote rules.
parse_commands_iter_escquote(st, s, k) ==
    LET char == s[k] IN
    IF st.skip_next /\ char \notin {"\"", "'"}
    THEN [st EXCEPT !.skip_next = FALSE,
                    !.current_command = Append(st.current_command, char)]
    ELSE IF char = "\\" /\ k < Len(s)
    THEN [st EXCEPT !.current_command = Append(st.current_command, s[k + 1]),
                    !.skip_next = TRUE]
    ELSE IF char \in {"\"", "'"}
    THEN IF ~st.in_quotes
         THEN [st EXCEPT !.in_quotes = TRUE, !.quote_char = char, !.skip_next = FALSE,
                         !.current_command = Append(st.current_command, char)]
         ELSE IF st.quote_char = char
         THEN [st EXCEPT !.in_quotes = FALSE, !.quote_char = "None", !.skip_next = FALSE,
                         !.current_command = Append(st.current_command, char)]
         ELSE [st EXCEPT !.skip_next = FALSE,
                         !.current_command = Append(st.current_command, char)]
    ELSE IF char = "+" /\ ~st.in_quotes
    THEN IF st.current_command # <<>>
         THEN [st EXCEPT !.commands = Append(st.commands, strip(st.current_command)),
                         !.current_command = <<>>]
         ELSE st
    ELSE [st EXCEPT !.current_command = Append(st.current_command, char)]

\* One iteration of `for i, char in enumerate(command_string)`; k = i + 1.
parse_commands_iter(st, s, k) ==
    LET char == s[k] IN
    IF st.skip_next
    THEN [st EXCEPT !.skip_next = FALSE,
                    !.current_command = Append(st.current_command, char)]
    ELSE IF char = "\\" /\ k < Len(s)
    THEN [st EXCEPT !.current_command = Append(st.current_command, s[k + 1]),
                    !.skip_next = TRUE]
    ELSE IF char \in {"\"", "'"}
    THEN IF ~st.in_quotes
         THEN [st EXCEPT !.in_quotes = TRUE, !.quote_char = char,
                         !.current_command = Append(st.current_command, char)]
         ELSE IF st.quote_char = char
         THEN [st EXCEPT !.in_quotes = FALSE, !.quote_char = "None",
                         !.current_command = Append(st.current_command, char)]
         ELSE [st EXCEPT !.current_command = Append(st.current_command, char)]
    ELSE IF char = "+" /\ ~st.in_quotes
    THEN IF st.current_command # <<>>
         THEN [st EXCEPT !.commands = Append(st.commands, strip(st.current_command)),
                         !.current_command = <<>>]
         ELSE st
    ELSE [st EXCEPT !.current_command = Append(st.current_command, char)]

\* Mutant: the last command is appended as it was accumulated.
parse_commands_return_nostrip(cmds, cur) ==
    IF cur # <<>> THEN Append(cmds, cur) ELSE cmds

\* The code after the loop: append the last command, return.
parse_commands_return(cmds, cur) ==
    IF cur # <<>> THEN Append(cmds, strip(cur)) ELSE cmds

parse_locals ==
    [commands |-> commands, current_command |-> current_command,
     in_quotes |-> in_quotes, quote_char |-> quote_char, skip_next |-> skip_next]

ParseIter ==
    /\ pc = "scan"
    /\ i < Len(command_string)
    /\ LET st == parse_commands_iter(parse_locals, command_string, i + 1) IN
         /\ commands' = st.commands
         /\ current_command' = st.current_command
         /\ in_quotes' = st.in_quotes
         /\ quote_char' = st.quote_char
         /\ skip_next' = st.skip_next
    /\ i' = i + 1
    /\ UNCHANGED <<pc, command_string, alias_vars, expand_vars, argv_vars,
                   console_vars>>

ParseReturn ==
    /\ pc = "scan"
    /\ i = Len(command_string)
    /\ commands' = parse_commands_return(commands, current_command)
    /\ pc' = "done"
    /\ UNCHANGED <<command_string, i, current_command, in_quotes, quote_char,
                   skip_next, alias_vars, expand_vars, argv_vars,
                   console_vars>>

NoAlias ==
    /\ aliases = [n \in {} |-> <<>>]
    /\ aliases_file = [state |-> "absent", data |-> <<>>]
    /\ save_warned = FALSE
    /\ op = "none"
    /\ op_name = <<>>
    /\ ret = FALSE

NoExpand ==
    /\ command = <<>>
    /\ expanded = <<>>

NoArgv ==
    /\ args = <<>>
    /\ fs = [q \in {} |-> "none"]
    /\ arg_i = 0
    /\ result = [commands |-> <<>>, files |-> <<>>, directories |-> <<>>,
                 executables |-> <<>>, options |-> [n \in {} |-> <<>>],
                 scripts |-> <<>>]
    /\ cat_i = 0
    /\ item_i = 0
    /\ results = <<>>
    /\ handled = <<>>
    /\ config = [interface_mode |-> "console", enable_bash_syntax |-> TRUE]
    /\ fs0 = fs

NoConsole ==
    /\ user_input = <<>>
    /\ last_input = [kind |-> "none", text |-> <<>>]
    /\ reads = 0
    /\ command_history = <<>>
    /\ history_file = [state |-> "absent", lines |-> <<>>]
    /\ history_saves = <<>>
    /\ mc_commands = <<>>
    /\ mc_i = 0
    /\ mc_results = <<>>
    /\ summary = [shown |-> FALSE, success_count |-> 0, total |-> 0]
    /\ dispatched = <<>>

NoSplit ==
    /\ command_string = <<>>
    /\ i = 0
    /\ commands = <<>>
    /\ current_command = <<>>
    /\ in_quotes = FALSE
    /\ quote_char = "None"
    /\ skip_next = FALSE

InitSplit ==
    /\ pc = "scan"
    /\ command_string \in Lines
    /\ i = 0
    /\ commands = parse_locals_init.commands
    /\ current_command = parse_locals_init.current_command
    /\ in_quotes = parse_locals_init.in_quotes
    /\ quote_char = parse_locals_init.quote_char
    /\ skip_next = parse_locals_init.skip_next
    /\ NoAlias
    /\ NoExpand
    /\ NoConsole
    /\ NoArgv

NextSplit == ParseIter \/ ParseReturn

SpecSplit == InitSplit /\ [][NextSplit]_vars

(***************************************************************************)
(* AliasManager                                                            *)
(***************************************************************************)
Sym == {" ", "ll", "ls", "-la", "alias"}

Cmds == SeqsUpTo(Sym, MaxCmdLen)

Reserved == {<<"alias">>, <<"unalias">>}

\* Keys a table can hold in the model, and the names passed to add_alias.
TableNames == {<<"ll">>, <<"ls">>, <<"alias">>}

AddNames == TableNames \cup {<<"unalias">>}

UnaliasArgs == TableNames \cup {<<>>, <<"-a">>}

Replacements == {<<"ls", " ", "-la">>, <<"ll", " ", "\"", "\\">>}

EmptyTable == [n \in {} |-> <<>>]

Tables == UNION {[D -> Replacements] : D \in SUBSET TableNames}

\* self.aliases[name] = command
table_set(tbl, name, cmd) ==
    [n \in DOMAIN tbl \cup {name} |-> IF n = name THEN cmd ELSE tbl[n]]

\* The order in which json.dump writes the keys of the table.
KeyOrder == <<<<"ll">>, <<"ls">>, <<"alias">>, <<"unalias">>, <<"x">>, <<"pwd">>>>

\* Mutant: quotes and backslashes are written as they are.
json_escape_none(str) == str

\* JSON string escaping: '"' and '\' are written with a backslash before them.
RECURSIVE json_escape(_)
json_escape(str) ==
    IF str = <<>> THEN <<>>
    ELSE (IF Head(str) \in {"\"", "\\"} THEN <<"\\", Head(str)>> ELSE <<Head(str)>>)
         \o json_escape(Tail(str))

json_string(str) == <<"\"">> \o json_escape(str) \o <<"\"">>

RECURSIVE json_entries(_, _, _)
json_entries(tbl, k, first) ==
    IF k > Len(KeyOrder) THEN <<>>
    ELSE IF KeyOrder[k] \in DOMAIN tbl
    THEN (IF first THEN <<>> ELSE <<",">>)
         \o json_string(KeyOrder[k]) \o <<":">> \o json_string(tbl[KeyOrder[k]])
         \o json_entries(tbl, k + 1, FALSE)
    ELSE json_entries(tbl, k + 1, first)

\* json.dump(self.aliases, f): the text of one JSON object, string -> string
\* (the indentation whitespace is left out).
json_dump(tbl) == <<"{">> \o json_entries(tbl, 1, TRUE) \o <<"}">>

\* Reads the characters of a JSON string whose opening quote is before k.
RECURSIVE json_read_string(_, _, _)
json_read_string(text, k, acc) ==
    IF k > Len(text) THEN [ok |-> FALSE, str |-> acc, next |-> k]
    ELSE IF text[k] = "\"" THEN [ok |-> TRUE, str |-> acc, next |-> k + 1]
    ELSE IF text[k] = "\\"
    THEN IF k + 1 <= Len(text) /\ text[k + 1] \in {"\"", "\\"}
         THEN json_read_string(text, k + 2, Append(acc, text[k + 1]))
         ELSE [ok |-> FALSE, str |-> acc, next |-> k]
    ELSE json_read_string(text, k + 1, Append(acc, text[k]))

\* Reads `"key":"value"` pairs from position k up to the closing brace.
RECURSIVE json_read_entries(_, _, _)
json_read_entries(text, k, tbl) ==
    IF k > Len(text) \/ text[k] # "\"" THEN [ok |-> FALSE, tbl |-> tbl]
    ELSE LET key == json_read_string(text, k + 1, <<>>) IN
         IF ~key.ok \/ key.next > Len(text) \/ text[key.next] # ":"
            \/ key.next + 1 > Len(text) \/ text[key.next + 1] # "\""
         THEN [ok |-> FALSE, tbl |-> tbl]
         ELSE LET val == json_read_string(text, key.next + 2, <<>>) IN
              IF ~val.ok \/ val.next > Len(text) THEN [ok |-> FALSE, tbl |-> tbl]
              ELSE IF text[val.next] = ","
              THEN json_read_entries(text, val.next + 1, table_set(tbl, key.str, val.str))
              ELSE IF text[val.next] = "}" /\ val.next = Len(text)
              THEN [ok |-> TRUE, tbl |-> table_set(tbl, key.str, val.str)]
              ELSE [ok |-> FALSE, tbl |-> tbl]

\* json.load(f): ok is FALSE where json.load raises; tbl then holds the
\* pairs read before the error.
json_load(text) ==
    IF Len(text) < 2 \/ text[1] # "{" THEN [ok |-> FALSE, tbl |-> EmptyTable]
    ELSE IF text[2] = "}"
    THEN [ok |-> Len(text) = 2, tbl |-> EmptyTable]
    ELSE json_read_entries(text, 2, EmptyTable)

AbsentFile == [state |-> "absent", data |-> <<>>]

\* A file emptied by open(..., 'w') and never written: it does not parse.
CorruptFile == [state |-> "exists", data |-> <<>>]

\* A file that exists and cannot be opened for reading.
UnreadableFile == [state |-> "unreadable", data |-> <<>>]

OkFile(tbl) == [state |-> "exists", data |-> json_dump(tbl)]

\* A file whose writing stopped before the closing brace.
CutFile(tbl) ==
    [state |-> "exists", data |-> SubSeq(json_dump(tbl), 1, Len(json_dump(tbl)) - 1)]

\* What ~/.zetas_aliases can hold when the program starts.
FileContents ==
    {AbsentFile, CorruptFile, UnreadableFile}
        \cup {OkFile(t) : t \in Tables} \cup {CutFile(t) : t \in Tables}

\* open(..., 'w') fails, json.dump fails after the file was truncated, or
\* the write succeeds.
SaveOutcomes == {"ok", "open_fail", "write_fail"}

\* Mutant: the pairs read before a parse error are kept.
load_aliases_partial(file) ==
    IF file.state = "absent" THEN EmptyTable
    ELSE IF file.state = "exists" THEN json_load(file.data).tbl
    ELSE EmptyTable

\* __init__ and _load_aliases: {} unless the file exists, opens and parses.
load_aliases(file) ==
    IF file.state = "absent" THEN EmptyTable
    ELSE IF file.state = "exists" /\ json_load(file.data).ok
    THEN json_load(file.data).tbl
    ELSE EmptyTable

\* _save_aliases: the file rewritten in full, or the warning printed.
save_aliases(tbl, file, outcome) ==
    IF outcome = "ok" THEN [aliases_file |-> OkFile(tbl), save_warned |-> FALSE]
    ELSE IF outcome = "open_fail" THEN [aliases_file |-> file, save_warned |-> TRUE]
    ELSE [aliases_file |-> CorruptFile, save_warned |-> TRUE]

\* del self.aliases[name]
table_del(tbl, name) == [n \in DOMAIN tbl \ {name} |-> tbl[n]]

\* Mutant: no reserved-name check.
add_alias_unchecked(tbl, file, name, cmd, outcome) ==
    LET saved == save_aliases(table_set(tbl, name, cmd), file, outcome) IN
    [aliases |-> table_set(tbl, name, cmd), aliases_file |-> saved.aliases_file,
     save_warned |-> saved.save_warned, ret |-> TRUE]

\* Mutant: the table is changed but never saved.
add_alias_unsaved(tbl, file, name, cmd, outcome) ==
    IF name \in Reserved
    THEN [aliases |-> tbl, aliases_file |-> file, save_warned |-> FALSE, ret |-> FALSE]
    ELSE [aliases |-> table_set(tbl, name, cmd), aliases_file |-> file,
          save_warned |-> FALSE, ret |-> TRUE]

add_alias(tbl, file, name, cmd, outcome) ==
    IF name \in Reserved
    THEN [aliases |-> tbl, aliases_file |-> file, save_warned |-> FALSE, ret |-> FALSE]
    ELSE LET saved == save_aliases(table_set(tbl, name, cmd), file, outcome) IN
         [aliases |-> table_set(tbl, name, cmd), aliases_file |-> saved.aliases_file,
          save_warned |-> saved.save_warned, ret |-> TRUE]

remove_alias(tbl, file, name, outcome) ==
    IF name \in DOMAIN tbl
    THEN LET saved == save_aliases(table_del(tbl, name), file, outcome) IN
         [aliases |-> table_del(tbl, name), aliases_file |-> saved.aliases_file,
          save_warned |-> saved.save_warned, ret |-> TRUE]
    ELSE [aliases |-> tbl, aliases_file |-> file, save_warned |-> FALSE, ret |-> FALSE]

\* _handle_unalias_command, name = command[8:].strip(); confirm is the
\* answer 'y' to the prompt of `unalias -a`.
handle_unalias_command(tbl, file, name, confirm, outcome) ==
    IF name = <<>>
    THEN [aliases |-> tbl, aliases_file |-> file, save_warned |-> FALSE,
          ret |-> FALSE, op |-> "unalias_usage"]
    ELSE IF name = <<"-a">>
    THEN IF confirm
         THEN LET saved == save_aliases(EmptyTable, file, outcome) IN
              [aliases |-> EmptyTable, aliases_file |-> saved.aliases_file,
               save_warned |-> saved.save_warned, ret |-> FALSE, op |-> "unalias_all"]
         ELSE [aliases |-> tbl, aliases_file |-> file, save_warned |-> FALSE,
               ret |-> FALSE, op |-> "unalias_declined"]
    ELSE LET r == remove_alias(tbl, file, name, outcome) IN
         [aliases |-> r.aliases, aliases_file |-> r.aliases_file,
          save_warned |-> r.save_warned, ret |-> r.ret, op |-> "remove_alias"]

AddAlias ==
    /\ pc = "alias"
    /\ \E name \in AddNames, cmd \in Replacements, outcome \in SaveOutcomes :
         LET r == add_alias(aliases, aliases_file, name, cmd, outcome) IN
         /\ aliases' = r.aliases
         /\ aliases_file' = r.aliases_file
         /\ save_warned' = r.save_warned
         /\ ret' = r.ret
         /\ op' = "add_alias"
         /\ op_name' = name
    /\ UNCHANGED <<pc, split_vars, expand_vars, argv_vars, console_vars>>

HandleUnalias ==
    /\ pc = "alias"
    /\ \E name \in UnaliasArgs, confirm \in BOOLEAN, outcome \in SaveOutcomes :
         LET r == handle_unalias_command(aliases, aliases_file, name, confirm, outcome) IN
         /\ aliases' = r.aliases
         /\ aliases_file' = r.aliases_file
         /\ save_warned' = r.save_warned
         /\ ret' = r.ret
         /\ op' = r.op
         /\ op_name' = name
    /\ UNCHANGED <<pc, split_vars, expand_vars, argv_vars, console_vars>>

\* The program exits and is started again: a new AliasManager loads the file.
Restart ==
    /\ pc = "alias"
    /\ aliases' = load_aliases(aliases_file)
    /\ save_warned' = FALSE
    /\ ret' = FALSE
    /\ op' = "init"
    /\ op_name' = <<>>
    /\ UNCHANGED <<pc, aliases_file, split_vars, expand_vars, argv_vars,
                   console_vars>>

InitAlias ==
    /\ pc = "alias"
    /\ aliases_file \in FileContents
    /\ aliases = load_aliases(aliases_file)
    /\ save_warned = FALSE
    /\ op = "init"
    /\ op_name = <<>>
    /\ ret = FALSE
    /\ NoSplit
    /\ NoExpand
    /\ NoConsole
    /\ NoArgv

NextAlias == AddAlias \/ HandleUnalias \/ Restart

SpecAlias == InitAlias /\ [][NextAlias]_vars

(***************************************************************************)
(* AliasManager.expand_alias                                               *)
(***************************************************************************)
RECURSIVE take_token(_)
take_token(s) ==
    IF s = <<>> \/ IsSpace(Head(s)) THEN <<>>
    ELSE <<Head(s)>> \o take_token(Tail(s))

\* s.split(maxsplit=1) for s without leading or trailing whitespace
split_maxsplit1(s) ==
    IF s = <<>> THEN <<>>
    ELSE LET tok == take_token(s)
             rest == lstrip(SubSeq(s, Len(tok) + 1, Len(s)))
         IN IF rest = <<>> THEN <<tok>> ELSE <<tok, rest>>

\* Mutant: replacement and remainder are joined without the space.
expand_alias_nospace(tbl, c) ==
    LET parts == split_maxsplit1(strip(c)) IN
    IF parts = <<>> THEN c
    ELSE LET cmd_name == parts[1] IN
         IF cmd_name \in DOMAIN tbl
         THEN IF Len(parts) > 1 THEN tbl[cmd_name] \o parts[2] ELSE tbl[cmd_name]
         ELSE c

\* Mutant: the expanded text is expanded once more inside the call.
expand_alias_twice(tbl, c) ==
    LET once(x) ==
          LET parts == split_maxsplit1(strip(x)) IN
          IF parts = <<>> THEN x
          ELSE LET cmd_name == parts[1] IN
               IF cmd_name \in DOMAIN tbl
               THEN IF Len(parts) > 1 THEN tbl[cmd_name] \o <<" ">> \o parts[2]
                    ELSE tbl[cmd_name]
               ELSE x
    IN once(once(c))

expand_alias(tbl, c) ==
    LET parts == split_maxsplit1(strip(c)) IN
    IF parts = <<>> THEN c
    ELSE LET cmd_name == parts[1] IN
         IF cmd_name \in DOMAIN tbl
         THEN IF Len(parts) > 1 THEN tbl[cmd_name] \o <<" ">> \o parts[2]
              ELSE tbl[cmd_name]
         ELSE c

ExpandAlias ==
    /\ pc = "expand"
    /\ \E c \in Cmds :
         /\ command' = c
         /\ expanded' = expand_alias(aliases, c)
    /\ op' = "expand_alias"
    /\ UNCHANGED <<pc, aliases, aliases_file, save_warned, op_name, ret, split_vars,
                   argv_vars, console_vars>>

\* The table is the one loaded from a well-formed file at startup.
InitExpand ==
    /\ pc = "expand"
    /\ aliases_file \in {OkFile(t) : t \in Tables}
    /\ aliases = load_aliases(aliases_file)
    /\ save_warned = FALSE
    /\ op = "init"
    /\ op_name = <<>>
    /\ ret = FALSE
    /\ NoSplit
    /\ NoExpand
    /\ NoConsole
    /\ NoArgv

NextExpand == ExpandAlias

SpecExpand == InitExpand /\ [][NextExpand]_vars

(***************************************************************************)
(* ParameterSystem.parse_args                                              *)
(* A token is a sequence of symbols: "/" and "-" are the characters, the   *)
(* symbols starting with "." are extensions, any other symbol is a name.   *)
(***************************************************************************)
T_cmd == <<"/", "p">>

T_opt == <<"-", "x">>

T_script == <<"s", ".zetas">>

T_exe == <<"tool", ".exe">>

T_plain == <<"f">>

ArgTokens == {T_cmd, T_opt, T_script, T_exe, T_plain}

\* main calls parse_args only when len(sys.argv) > 1.
Argvs == SeqsUpTo(ArgTokens, MaxArgs) \ {<<>>}

\* What each path can be on disk: "xfile" is a regular file with the execute
\* permission, "special" exists and is neither a regular file nor a directory.
FileSystems ==
    {f \in [ArgTokens -> {"none", "dir", "file", "xfile", "special"}] :
        /\ f[T_cmd] \in {"none", "dir"}
        /\ f[T_opt] = "none"
        /\ f[T_script] \in {"none", "dir", "file"}
        /\ f[T_exe] \in {"none", "file", "special"}
        /\ f[T_plain] \in {"none", "dir", "file", "xfile"}}

NoneVal == <<"None">>

TrueVal == <<"True">>

OsName == "posix"

executable_exts == {".exe", ".bat", ".cmd", ".sh", ".py", ".app"}

startswith(arg, c) == Len(arg) > 0 /\ arg[1] = c

endswith(arg, c) == Len(arg) > 0 /\ arg[Len(arg)] = c

\* os.path.splitext(path)[1]
splitext(path) ==
    IF Len(path) >= 2 /\ path[Len(path)] \in executable_exts \cup {".zetas", ".txt"}
    THEN path[Len(path)] ELSE ""

kind(f, path) == IF path \in DOMAIN f THEN f[path] ELSE "none"

exists(f, path) == kind(f, path) # "none"

isdir(f, path) == kind(f, path) = "dir"

isfile(f, path) == kind(f, path) \in {"file", "xfile"}

\* ParameterSystem._is_executable
is_executable(f, file_path) ==
    IF ~exists(f, file_path) THEN FALSE
    ELSE IF splitext(file_path) \in executable_exts THEN TRUE
    ELSE IF OsName = "posix" THEN kind(f, file_path) = "xfile"
    ELSE FALSE

\* Mutant: the file system is looked at before the shape of the token.
classify_fs_first(f, arg) ==
    IF isdir(f, arg) THEN "directories"
    ELSE IF startswith(arg, "/") THEN "commands"
    ELSE IF startswith(arg, "-") THEN "options"
    ELSE IF endswith(arg, ".zetas") THEN "scripts"
    ELSE IF isfile(f, arg)
    THEN IF is_executable(f, arg) THEN "executables" ELSE "files"
    ELSE IF is_executable(f, arg) THEN "executables" ELSE "files"

\* Mutant: the directory test comes before the suffix test.
classify_dir_before_suffix(f, arg) ==
    IF startswith(arg, "/") THEN "commands"
    ELSE IF startswith(arg, "-") THEN "options"
    ELSE IF isdir(f, arg) THEN "directories"
    ELSE IF endswith(arg, ".zetas") THEN "scripts"
    ELSE IF isfile(f, arg)
    THEN IF is_executable(f, arg) THEN "executables" ELSE "files"
    ELSE IF is_executable(f, arg) THEN "executables" ELSE "files"

\* The if / elif chain of the loop body: the bucket of the token at args[i].
classify(f, arg) ==
    IF startswith(arg, "/") THEN "commands"
    ELSE IF startswith(arg, "-") THEN "options"
    ELSE IF endswith(arg, ".zetas") THEN "scripts"
    ELSE IF isdir(f, arg) THEN "directories"
    ELSE IF isfile(f, arg)
    THEN IF is_executable(f, arg) THEN "executables" ELSE "files"
    ELSE IF is_executable(f, arg) THEN "executables" ELSE "files"

\* Mutant: the next token is taken as the value whatever it starts with.
takes_value_always(a, k) == k + 1 <= Len(a)

\* i + 1 < len(args) and not args[i + 1].startswith(('-', '/')), with k = i + 1
takes_value(a, k) ==
    k + 1 <= Len(a) /\ ~(startswith(a[k + 1], "-") \/ startswith(a[k + 1], "/"))

DefaultConfig == [interface_mode |-> "console", enable_bash_syntax |-> TRUE]

parse_args_init ==
    [commands |-> <<>>, files |-> <<>>, directories |-> <<>>,
     executables |-> <<>>, options |-> EmptyTable, scripts |-> <<>>]

\* One iteration of `while i < len(args)`, on args[i] with k = i + 1:
\* the buckets and the value of i after the iteration.
parse_args_iter(res, a, f, k) ==
    LET arg == a[k]
        bucket == classify(f, arg)
    IN IF bucket = "commands"
       THEN IF takes_value(a, k)
            THEN [result |-> [res EXCEPT !.commands = Append(@, <<Tail(arg), a[k + 1]>>)],
                  i |-> k + 1]
            ELSE [result |-> [res EXCEPT !.commands = Append(@, <<Tail(arg), NoneVal>>)],
                  i |-> k]
       ELSE IF bucket = "options"
       THEN IF takes_value(a, k)
            THEN [result |-> [res EXCEPT !.options = table_set(@, arg, a[k + 1])],
                  i |-> k + 1]
            ELSE [result |-> [res EXCEPT !.options = table_set(@, arg, TrueVal)],
                  i |-> k]
       ELSE IF bucket = "scripts"
       THEN [result |-> [res EXCEPT !.scripts = Append(@, arg)], i |-> k]
       ELSE IF bucket = "directories"
       THEN [result |-> [res EXCEPT !.directories = Append(@, arg)], i |-> k]
       ELSE IF bucket = "executables"
       THEN [result |-> [res EXCEPT !.executables = Append(@, arg)], i |-> k]
       ELSE [result |-> [res EXCEPT !.files = Append(@, arg)], i |-> k]

\* The whole loop from index i on: the value parse_args returns.
RECURSIVE parse_args(_, _, _, _)
parse_args(res, a, f, n) ==
    IF n >= Len(a) THEN res
    ELSE LET step == parse_args_iter(res, a, f, n + 1) IN
         parse_args(step.result, a, f, step.i)

ParseArgsIter ==
    /\ pc = "parse"
    /\ arg_i < Len(args)
    /\ LET step == parse_args_iter(result, args, fs, arg_i + 1) IN
         /\ result' = step.result
         /\ arg_i' = step.i
    /\ UNCHANGED <<pc, args, fs, cat_i, item_i, results, handled, config, fs0,
                   split_vars, alias_vars, expand_vars, console_vars>>

ParseArgsReturn ==
    /\ pc = "parse"
    /\ arg_i >= Len(args)
    /\ pc' = "parsed"
    /\ UNCHANGED <<argv_vars, split_vars, alias_vars, expand_vars, console_vars>>

InitParse ==
    /\ pc = "parse"
    /\ args \in Argvs
    /\ fs \in FileSystems
    /\ arg_i = 0
    /\ result = parse_args_init
    /\ cat_i = 0
    /\ item_i = 0
    /\ results = <<>>
    /\ handled = <<>>
    /\ config = DefaultConfig
    /\ fs0 = fs
    /\ NoSplit
    /\ NoAlias
    /\ NoExpand
    /\ NoConsole

NextParse == ParseArgsIter \/ ParseArgsReturn

SpecParse == InitParse /\ [][NextParse]_vars

(***************************************************************************)
(* ParameterSystem.execute_in_order                                        *)
(* A handler call has one of four outcomes: it returns True, it returns    *)
(* False, it raises an Exception, or it raises SystemExit, which is a      *)
(* BaseException and not an Exception.                                     *)
(***************************************************************************)
T_console == <<"-", "console">>

T_bash == <<"-", "bash">>

\* An argv token holding the Python statement `raise SystemExit`.
T_exit == <<"raise", " ", "SystemExit">>

ExecTokens == ArgTokens \cup {T_console, T_bash, T_exit}

ExecArgvs == SeqsUpTo(ExecTokens, MaxArgs) \ {<<>>}

ExecFileSystems ==
    {f \in FileSystems :
        /\ f[T_cmd] = "none"
        /\ <<f[T_script], f[T_exe], f[T_plain]>> \in
              {<<"none", "none", "none">>, <<"file", "file", "dir">>,
               <<"dir", "none", "file">>}}

\* config.data after Config.load: the defaults, or what the config file holds.
Configs == {DefaultConfig, [interface_mode |-> "gui", enable_bash_syntax |-> FALSE]}

\* Config.set; a failure of Config.save is caught inside save.
config_set(cfg, key, value) == [cfg EXCEPT ![key] = value]

\* Mutant: files are processed before scripts.
execution_sequence_files_first ==
    <<"commands", "files", "scripts", "directories", "executables">>

execution_sequence ==
    <<"commands", "scripts", "files", "directories", "executables">>

command_handlers ==
    {<<"p">>, <<"monitor">>, <<"bash">>, <<"help">>, <<"config">>, <<"sysinfo">>,
     <<"fileops">>, <<"process">>, <<"network">>, <<"encode">>, <<"time">>,
     <<"color">>}

\* EnhancedPythonEnvironment.execute_code: exec(code) inside
\* `try ... except Exception`.  A bare name that is not bound raises NameError,
\* which is caught; SystemExit is not an Exception and leaves the function.
execute_code(code) ==
    IF code = T_exit THEN {"SystemExit"} ELSE {"False"}

\* ParameterSystem._pseudo_python.  Without an argument the interactive
\* environment runs what the user types through execute_code until 'exit'
\* or the end of input.
pseudo_python(arg) ==
    IF arg # NoneVal THEN execute_code(arg) ELSE {"True", "SystemExit"}

\* ParameterSystem._execute_command
execute_command(cmd, arg) ==
    IF cmd \in command_handlers
    THEN IF cmd = <<"p">> THEN pseudo_python(arg) ELSE {"True", "False"}
    ELSE {"False"}

\* ParameterSystem._execute_script: reading the script may fail, and
\* opening a directory does fail; both are caught inside the handler.
execute_script(f, script_path) ==
    IF exists(f, script_path)
    THEN IF isfile(f, script_path) THEN {"True", "False"} ELSE {"False"}
    ELSE {"False"}

\* ParameterSystem._process_file: os.path.getsize raises OSError when the
\* file went away after the os.path.exists test.
process_file(f, file_path) ==
    IF exists(f, file_path) THEN {"True", "Exception"} ELSE {"False"}

\* ParameterSystem._process_directory
process_directory(f, dir_path) ==
    IF exists(f, dir_path) /\ isdir(f, dir_path) THEN {"True"} ELSE {"False"}

\* ParameterSystem._execute_program: subprocess.run inside try / except.
execute_program(f, program) == {"True", "False"}

\* The outcomes of handler(...) for an item of a category.
handler(category, item, f) ==
    IF category = "commands" THEN execute_command(item[1], item[2])
    ELSE IF category = "scripts" THEN execute_script(f, item)
    ELSE IF category = "files" THEN process_file(f, item)
    ELSE IF category = "directories" THEN process_directory(f, item)
    ELSE execute_program(f, item)

\* category[:-1]
category_prefix(category) ==
    IF category = "commands" THEN "command"
    ELSE IF category = "scripts" THEN "script"
    ELSE IF category = "files" THEN "file"
    ELSE IF category = "directories" THEN "directorie"
    ELSE "executable"

\* The tuple appended to results for an item whose handler returned or
\* raised an Exception: the label is its head, the item and the error text.
exec_result(category, item, out) ==
    IF out = "Exception"
    THEN [label |-> [head |-> category_prefix(category), item |-> item,
                     error |-> "e"],
          success |-> FALSE]
    ELSE [label |-> [head |-> IF category = "commands" THEN "cmd"
                              ELSE category_prefix(category),
                     item |-> item, error |-> ""],
          success |-> (out = "True")]

\* The keys of parsed_args['options'] in insertion order: every token that
\* starts with '-' is an option name, and a repeated name keeps its place.
RECURSIVE option_keys(_, _)
option_keys(a, acc) ==
    IF a = <<>> THEN acc
    ELSE option_keys(Tail(a),
                     IF startswith(Head(a), "-")
                        /\ \A n \in 1..Len(acc) : acc[n] # Head(a)
                     THEN Append(acc, Head(a)) ELSE acc)

\* Mutant: -console is reported and the configuration is left alone.
option_effect_noconfig(option, st) ==
    IF option = T_console
    THEN [config |-> st.config,
          results |-> Append(st.results,
                             [label |-> [head |-> "option", item |-> option,
                                         error |-> ""],
                              success |-> TRUE])]
    ELSE IF option = T_bash
    THEN [config |-> config_set(st.config, "enable_bash_syntax", TRUE),
          results |-> Append(st.results,
                             [label |-> [head |-> "option", item |-> option,
                                         error |-> ""],
                              success |-> TRUE])]
    ELSE st

\* Mutant: an option that is not recognized is reported too.
option_effect_any(option, st) ==
    IF option = T_console
    THEN [config |-> config_set(st.config, "interface_mode", "console"),
          results |-> Append(st.results,
                             [label |-> [head |-> "option", item |-> option,
                                         error |-> ""],
                              success |-> TRUE])]
    ELSE [config |-> st.config,
          results |-> Append(st.results,
                             [label |-> [head |-> "option", item |-> option,
                                         error |-> ""],
                              success |-> TRUE])]

\* One iteration of the loop over parsed_args['options'].items().
option_effect(option, st) ==
    IF option = T_console
    THEN [config |-> config_set(st.config, "interface_mode", "console"),
          results |-> Append(st.results,
                             [label |-> [head |-> "option", item |-> option,
                                         error |-> ""],
                              success |-> TRUE])]
    ELSE IF option = T_bash
    THEN [config |-> config_set(st.config, "enable_bash_syntax", TRUE),
          results |-> Append(st.results,
                             [label |-> [head |-> "option", item |-> option,
                                         error |-> ""],
                              success |-> TRUE])]
    ELSE st

RECURSIVE options_loop(_, _)
options_loop(keys, st) ==
    IF keys = <<>> THEN st
    ELSE options_loop(Tail(keys), option_effect(Head(keys), st))

\* The file systems a handler call can leave behind: the statements typed
\* into the interactive Python environment and the program that is run may
\* create, delete or replace any path; the other handlers only read.
fs_after(category, item, f) ==
    IF category = "commands"
    THEN IF item[1] = <<"p">> /\ item[2] = NoneVal THEN ExecFileSystems ELSE {f}
    ELSE IF category = "executables" THEN ExecFileSystems
    ELSE {f}

\* Mutant: the tokens are classified again when a category is executed.
bucket_items_reclassified(parsed_args, a, f, category) ==
    parse_args(parse_args_init, a, f, 0)[category]

\* items = parsed_args.get(category, [])
bucket_items(parsed_args, a, f, category) == parsed_args[category]

\* One iteration of `for item in items`: the handler call and what is
\* appended to results; SystemExit passes `except Exception` and ends the call.
ExecItem ==
    /\ pc = "exec"
    /\ cat_i < Len(execution_sequence)
    /\ LET category == execution_sequence[cat_i + 1]
           items == bucket_items(result, args, fs, category)
       IN /\ item_i < Len(items)
          /\ fs' \in fs_after(category, items[item_i + 1], fs)
          /\ \E out \in handler(category, items[item_i + 1], fs) :
               /\ handled' = Append(handled, [category |-> category,
                                              item |-> items[item_i + 1]])
               /\ IF out = "SystemExit"
                  THEN /\ pc' = "raised"
                       /\ UNCHANGED <<results, item_i>>
                  ELSE /\ results' = Append(results,
                                            exec_result(category, items[item_i + 1], out))
                       /\ item_i' = item_i + 1
                       /\ pc' = pc
    /\ UNCHANGED <<args, arg_i, result, cat_i, config, fs0, split_vars,
                   alias_vars, expand_vars, console_vars>>

\* The items of the current category are exhausted: the next category.
ExecNextCategory ==
    /\ pc = "exec"
    /\ cat_i < Len(execution_sequence)
    /\ item_i >= Len(bucket_items(result, args, fs, execution_sequence[cat_i + 1]))
    /\ cat_i' = cat_i + 1
    /\ item_i' = 0
    /\ UNCHANGED <<pc, args, fs, arg_i, result, results, handled, config, fs0,
                   split_vars, alias_vars, expand_vars, console_vars>>

\* The loop over the options and `return results`.
ExecOptions ==
    /\ pc = "exec"
    /\ cat_i = Len(execution_sequence)
    /\ LET st == options_loop(option_keys(args, <<>>),
                              [config |-> config, results |-> results])
       IN /\ config' = st.config
          /\ results' = st.results
    /\ pc' = "returned"
    /\ UNCHANGED <<args, fs, arg_i, result, cat_i, item_i, handled, fs0,
                   split_vars, alias_vars, expand_vars, console_vars>>

\* main: parsed_args = parse_args(sys.argv[1:]), then execute_in_order.
InitExec ==
    /\ pc = "exec"
    /\ args \in ExecArgvs
    /\ fs \in ExecFileSystems
    /\ fs0 = fs
    /\ config \in Configs
    /\ arg_i = Len(args)
    /\ result = parse_args(parse_args_init, args, fs, 0)
    /\ cat_i = 0
    /\ item_i = 0
    /\ results = <<>>
    /\ handled = <<>>
    /\ NoSplit
    /\ NoAlias
    /\ NoExpand
    /\ NoConsole

NextExec == ExecItem \/ ExecNextCategory \/ ExecOptions

SpecExec == InitExec /\ [][NextExec]_vars

(***************************************************************************)
(* ConsoleInterface.run_interactive, process_command and                   *)
(* _process_single_command; MultiCommandProcessor.execute_commands         *)
(* A line is a sequence of symbols: " ", "+", "=", "/" and the quotes are  *)
(* characters, any other symbol is a run of letters.  No line holds a      *)
(* backslash, and no run of letters can be read as two symbols, so a line  *)
(* stands for one character string and every cut the code makes falls      *)
(* between two symbols.                                                    *)
(***************************************************************************)
\* The line `pwd`
L_pwd == <<"pwd">>

\* The line `PWD`
L_PWD == <<"PWD">>

\* The line `pwdx`
L_pwdx == <<"pwd", "x">>

\* The line `ls`
L_ls == <<"ls">>

\* The line `lsof`
L_lsof == <<"ls", "of">>

\* The line `cdrom`
L_cdrom == <<"cd", "rom">>

\* The line `cd x`
L_cd == <<"cd", " ", "x">>

\* The line `rm x`
L_rm == <<"rm", " ", "x">>

\* The line `x`
L_x == <<"x">>

\* The line ` Exit `
L_exit_padded == <<" ", "Exit", " ">>

\* The line `q`
L_q == <<"q">>

\* The line ` `
L_blank == <<" ">>

\* The line `/p raise SystemExit`
L_py_exit == <<"/", "p", " ", "raise", " ", "SystemExit">>

\* The line `alias x="a+b"`
L_alias_plus == <<"alias", " ", "x", "=", "\"", "a", "+", "b", "\"">>

\* The line `alias pwd=ls`
L_alias_pwd == <<"alias", " ", "pwd", "=", "ls">>

\* The line `unalias x`
L_unalias == <<"unalias", " ", "x">>

\* The line `rm x+pwd`
L_rm_pwd == <<"rm", " ", "x", "+", "pwd">>

\* The line `pwd+ +ls`
L_gap == <<"pwd", "+", " ", "+", "ls">>

\* The line `x + pwd`
L_x_pwd == <<"x", " ", "+", " ", "pwd">>

\* The line `/p raise SystemExit+pwd`
L_py_exit_pwd == <<"/", "p", " ", "raise", " ", "SystemExit", "+", "pwd">>

\* The line `exit+pwd`
L_exit_pwd == <<"exit", "+", "pwd">>

RawLines ==
    {L_pwd, L_PWD, L_pwdx, L_ls, L_lsof,
     L_cdrom, L_cd, L_rm, L_x, L_exit_padded,
     L_q, L_blank, L_py_exit, L_alias_plus, L_alias_pwd,
     L_unalias, L_rm_pwd, L_gap, L_x_pwd, L_py_exit_pwd,
     L_exit_pwd}

\* What input(prompt) does: it returns a line, or raises EOFError or
\* KeyboardInterrupt.
ConsoleInputs ==
    {[kind |-> "line", text |-> l] : l \in RawLines}
    \cup {[kind |-> "eof", text |-> <<>>], [kind |-> "interrupt", text |-> <<>>]}

HistoryCap == 100

\* The symbols of the lines that hold an upper-case letter, in lower case.
Upper == [PWD |-> "pwd", Exit |-> "exit"]

\* str.lower
lower(s) == [k \in 1..Len(s) |-> IF s[k] \in DOMAIN Upper THEN Upper[s[k]] ELSE s[k]]

\* str.startswith with a prefix of several symbols
has_prefix(s, p) == Len(s) >= Len(p) /\ SubSeq(s, 1, Len(p)) = p

RECURSIVE lstrip_chars(_, _)
lstrip_chars(s, cs) ==
    IF s # <<>> /\ Head(s) \in cs THEN lstrip_chars(Tail(s), cs) ELSE s

RECURSIVE rstrip_chars(_, _)
rstrip_chars(s, cs) ==
    IF s # <<>> /\ s[Len(s)] \in cs THEN rstrip_chars(SubSeq(s, 1, Len(s) - 1), cs)
    ELSE s

\* str.strip(chars)
strip_chars(s, cs) == rstrip_chars(lstrip_chars(s, cs), cs)

\* The whole of parse_commands: the loop, then the code after it.
RECURSIVE parse_commands_loop(_, _, _)
parse_commands_loop(st, s, k) ==
    IF k > Len(s) THEN parse_commands_return(st.commands, st.current_command)
    ELSE parse_commands_loop(parse_commands_iter(st, s, k), s, k + 1)

parse_commands(s) == parse_commands_loop(parse_locals_init, s, 1)

ExitWords == {<<"exit">>, <<"quit">>, <<"q">>}

HistorySaveOutcomes == {"ok", "fail"}

AbsentHistory == [state |-> "absent", lines |-> <<>>]

\* lst[-n:]
last_n(lst, n) == IF Len(lst) > n THEN SubSeq(lst, Len(lst) - n + 1, Len(lst)) ELSE lst

\* _load_history: a file that cannot be read leaves the history empty.
load_history(file) ==
    IF file.state = "exists"
    THEN [k \in 1..Len(last_n(file.lines, HistoryCap)) |->
             strip(last_n(file.lines, HistoryCap)[k])]
    ELSE <<>>

\* Mutant: _save_history writes nothing.
save_history_dropped(history, file, outcome) == file

\* _save_history: the last entries written one per line; a failure is
\* swallowed and leaves the file as it was.
save_history(history, file, outcome) ==
    IF outcome = "ok"
    THEN [state |-> "exists", lines |-> last_n(history, HistoryCap)]
    ELSE file

\* command_history.append(user_input) and the pop(0) beyond the cap
history_append(history, line) ==
    IF Len(history) + 1 > HistoryCap THEN Tail(Append(history, line))
    ELSE Append(history, line)

\* The if / elif chain of _process_single_command, lines 1236-1315: the
\* handler the command is routed to.  "pwd" is the inline print of line 1283
\* and "external" the final else branch.
process_route(cmd_text) ==
    LET cmd_lower == lower(cmd_text) IN
    IF cmd_lower = <<"history">> THEN "_show_command_history"
    ELSE IF cmd_lower = <<"help">> THEN "print_help"
    ELSE IF cmd_lower = <<"sysinfo">> THEN "print_system_info"
    ELSE IF cmd_lower = <<"clear">> THEN "clear"
    ELSE IF has_prefix(cmd_text, <<"/">>) THEN "_execute_command"
    ELSE IF has_prefix(cmd_lower, <<"cd", " ">>) THEN "_change_directory"
    ELSE IF has_prefix(cmd_lower, <<"alias", " ">>) THEN "_handle_alias_command"
    ELSE IF cmd_lower = <<"alias">> THEN "list_aliases"
    ELSE IF has_prefix(cmd_lower, <<"unalias", " ">>) THEN "_handle_unalias_command"
    ELSE IF has_prefix(cmd_lower, <<"ls">>) \/ has_prefix(cmd_lower, <<"dir">>) THEN "_list_files"
    ELSE IF has_prefix(cmd_lower, <<"mkdir", " ">>) THEN "_make_directory"
    ELSE IF has_prefix(cmd_lower, <<"touch", " ">>) THEN "_touch_file"
    ELSE IF has_prefix(cmd_lower, <<"rm", " ">>) THEN "_remove_file"
    ELSE IF has_prefix(cmd_lower, <<"cp", " ">>) THEN "_copy_file"
    ELSE IF has_prefix(cmd_lower, <<"mv", " ">>) THEN "_move_file"
    ELSE IF has_prefix(cmd_lower, <<"find", " ">>) THEN "_find_file"
    ELSE IF has_prefix(cmd_lower, <<"cat", " ">>) \/ has_prefix(cmd_lower, <<"type", " ">>) THEN "_show_file_content"
    ELSE IF has_prefix(cmd_lower, <<"echo", " ">>) THEN "_echo_text"
    ELSE IF has_prefix(cmd_lower, <<"color_echo", " ">>) THEN "_color_echo_text"
    ELSE IF has_prefix(cmd_lower, <<"color", " ">>) THEN "_set_global_color"
    ELSE IF has_prefix(cmd_lower, <<"open", " ">>) THEN "_open_file_command"
    ELSE IF cmd_lower = <<"pwd">> THEN "pwd"
    ELSE IF cmd_lower = <<"ps">> \/ cmd_lower = <<"tasklist">> THEN "_show_process_list"
    ELSE IF has_prefix(cmd_lower, <<"kill", " ">>) \/ has_prefix(cmd_lower, <<"taskkill", " ">>) THEN "_kill_process"
    ELSE IF cmd_lower = <<"whoami">> THEN "_show_current_user"
    ELSE IF cmd_lower = <<"hostname">> THEN "_show_hostname"
    ELSE IF cmd_lower = <<"date">> THEN "_show_date"
    ELSE IF cmd_lower = <<"time">> THEN "_show_time"
    ELSE IF has_prefix(cmd_lower, <<"ping", " ">>) THEN "_ping_host"
    ELSE IF cmd_lower = <<"ipconfig">> \/ cmd_lower = <<"ifconfig">> THEN "_show_network_config"
    ELSE IF cmd_lower = <<"netstat">> THEN "_show_network_connections"
    ELSE IF has_prefix(cmd_lower, <<"base64", " ">>) THEN "_base64_encode_decode"
    ELSE IF has_prefix(cmd_lower, <<"hex", " ">>) THEN "_hex_encode_decode"
    ELSE "external"

\* The handlers that only print.
DisplayRoutes ==
    {"_show_command_history", "print_help", "print_system_info", "clear",
     "list_aliases", "pwd", "_show_current_user", "_show_hostname",
     "_show_date", "_show_time"}

\* What a handler call can come to: "done", the action succeeded; "failed",
\* it failed, and the handler printed the error or raised an Exception;
\* "escaped", a KeyboardInterrupt or SystemExit was raised while it ran.
handler_outcomes(route) ==
    IF route \in DisplayRoutes THEN {"done"} ELSE {"done", "failed", "escaped"}

\* The outcome of _execute_command called from the console.
console_outcome(out) ==
    IF out = "True" THEN "done" ELSE IF out = "False" THEN "failed" ELSE "escaped"

\* The AliasManager and what its last operation was.
alias_manager ==
    [aliases |-> aliases, aliases_file |-> aliases_file,
     save_warned |-> save_warned, ret |-> ret, op |-> op, op_name |-> op_name]

\* _handle_alias_command; command[6:] is what follows 'alias '.
handle_alias_command(am, cmd_text, outcome) ==
    LET rest == strip(SubSeq(cmd_text, 3, Len(cmd_text))) IN
    IF \A k \in 1..Len(rest) : rest[k] # "="
    THEN [am |-> am, ok |-> FALSE]
    ELSE LET k == CHOOSE n \in 1..Len(rest) :
                     rest[n] = "=" /\ \A j \in 1..(n - 1) : rest[j] # "="
             name == strip(SubSeq(rest, 1, k - 1))
             cmd == strip_chars(strip(SubSeq(rest, k + 1, Len(rest))), {"\"", "'"})
         IN IF name = <<>> THEN [am |-> am, ok |-> FALSE]
            ELSE LET r == add_alias(am.aliases, am.aliases_file, name, cmd, outcome) IN
                 [am |-> [aliases |-> r.aliases, aliases_file |-> r.aliases_file,
                          save_warned |-> r.save_warned, ret |-> r.ret,
                          op |-> "add_alias", op_name |-> name],
                  ok |-> r.ret]

\* _handle_unalias_command called from the console; command[8:] is what
\* follows 'unalias '.
console_unalias(am, cmd_text, confirm, outcome) ==
    LET name == strip(SubSeq(cmd_text, 3, Len(cmd_text)))
        r == handle_unalias_command(am.aliases, am.aliases_file, name, confirm, outcome)
    IN [am |-> [aliases |-> r.aliases, aliases_file |-> r.aliases_file,
                save_warned |-> r.save_warned, ret |-> r.ret, op |-> r.op,
                op_name |-> name],
        ok |-> r.op \in {"unalias_all", "unalias_declined"} \/ r.ret]

\* Mutant: the expanded text is split at '+' and only its first part is
\* dispatched.
dispatch_text_resplit(tbl, cmd_text) ==
    LET parts == parse_commands(expand_alias(tbl, cmd_text)) IN
    IF parts = <<>> THEN <<>> ELSE parts[1]

\* Mutant: the built-in table is consulted on the text as typed.
dispatch_text_unexpanded(tbl, cmd_text) == cmd_text

\* Lines 1229-1232: the text the built-in chain is matched against.
dispatch_text(tbl, cmd_text) == expand_alias(tbl, cmd_text)

\* _process_single_command: the ways a call can go.  Every Exception is
\* caught at line 1316; only a KeyboardInterrupt or SystemExit leaves it.
process_single_command(am, sub) ==
    LET cmd_text == dispatch_text(am.aliases, sub)
        route == process_route(cmd_text)
        entry(out) == [sub |-> sub, command |-> cmd_text, route |-> route,
                       outcome |-> out]
    IN IF route = "_execute_command"
       THEN LET parts == split_maxsplit1(lstrip(Tail(cmd_text)))
                cmd == IF parts # <<>> THEN parts[1] ELSE <<>>
                arg == IF Len(parts) > 1 THEN parts[2] ELSE NoneVal
            IN {[entry |-> entry(console_outcome(o)), am |-> am] :
                   o \in execute_command(cmd, arg)}
       ELSE IF route = "_handle_alias_command"
       THEN {[entry |-> entry(IF handle_alias_command(am, cmd_text, so).ok
                              THEN "done" ELSE "failed"),
              am |-> handle_alias_command(am, cmd_text, so).am] :
                so \in SaveOutcomes}
       ELSE IF route = "_handle_unalias_command"
       THEN {[entry |-> entry(IF console_unalias(am, cmd_text, cf, so).ok
                              THEN "done" ELSE "failed"),
              am |-> console_unalias(am, cmd_text, cf, so).am] :
                so \in SaveOutcomes, cf \in BOOLEAN}
       ELSE {[entry |-> entry(o), am |-> am] : o \in handler_outcomes(route)}

NoSummary == [shown |-> FALSE, success_count |-> 0, total |-> 0]

\* Lines 636-642: the summary is printed for more than one result.
execute_summary(rs) ==
    IF Len(rs) > 1
    THEN [shown |-> TRUE,
          success_count |-> Cardinality({k \in 1..Len(rs) : rs[k].success}),
          total |-> Len(rs)]
    ELSE NoSummary

\* One iteration of `while self.running` up to the call of process_command:
\* the prompt, the empty-line test, the history entry, the exit test, and in
\* process_command the choice between execute_commands and
\* _process_single_command.
ReadLine ==
    /\ pc = "prompt"
    /\ reads < MaxReads
    /\ \E inp \in ConsoleInputs, s1 \in HistorySaveOutcomes, s2 \in HistorySaveOutcomes :
         LET line == strip(inp.text)
             hist == history_append(command_history, line)
         IN /\ last_input' = inp
            /\ reads' = reads + 1
            /\ IF inp.kind = "eof"
               THEN /\ pc' = "ended"
                    /\ history_file' = save_history(command_history, history_file, s1)
                    /\ history_saves' = Append(history_saves, s1)
                    /\ UNCHANGED <<user_input, command_history, mc_commands, mc_i,
                                   mc_results, summary, dispatched>>
               ELSE IF inp.kind = "interrupt"
               THEN /\ pc' = "prompt"
                    /\ UNCHANGED <<user_input, command_history, history_file, history_saves,
                                   mc_commands, mc_i, mc_results, summary, dispatched>>
               ELSE IF line = <<>>
               THEN /\ pc' = "prompt"
                    /\ user_input' = line
                    /\ UNCHANGED <<command_history, history_file, history_saves, mc_commands, mc_i,
                                   mc_results, summary, dispatched>>
               ELSE IF lower(line) \in ExitWords
               THEN /\ pc' = "ended"
                    /\ user_input' = line
                    /\ command_history' = hist
                    /\ history_file' = save_history(hist, save_history(hist, history_file, s1), s2)
                    /\ history_saves' = history_saves \o <<s1, s2>>
                    /\ UNCHANGED <<mc_commands, mc_i, mc_results, summary, dispatched>>
               ELSE /\ user_input' = line
                    /\ command_history' = hist
                    /\ dispatched' = <<>>
                    /\ mc_i' = 0
                    /\ mc_results' = <<>>
                    /\ summary' = NoSummary
                    /\ IF \E k \in 1..Len(line) : line[k] = "+"
                       THEN /\ pc' = "multi"
                            /\ mc_commands' = parse_commands(line)
                       ELSE /\ pc' = "single"
                            /\ mc_commands' = <<>>
                    /\ UNCHANGED <<history_file, history_saves>>
    /\ UNCHANGED <<alias_vars, split_vars, expand_vars, argv_vars>>

\* process_command without '+': _process_single_command(command), then back
\* to the prompt unless a KeyboardInterrupt or SystemExit passes the
\* `except Exception` of lines 1316 and 1202.
ProcessSingle ==
    /\ pc = "single"
    /\ \E r \in process_single_command(alias_manager, user_input) :
         /\ dispatched' = Append(dispatched, r.entry)
         /\ aliases' = r.am.aliases
         /\ aliases_file' = r.am.aliases_file
         /\ save_warned' = r.am.save_warned
         /\ ret' = r.am.ret
         /\ op' = r.am.op
         /\ op_name' = r.am.op_name
         /\ pc' = IF r.entry.outcome = "escaped" THEN "crashed" ELSE "prompt"
    /\ UNCHANGED <<user_input, last_input, reads, command_history, history_file, history_saves,
                   mc_commands, mc_i, mc_results, summary, split_vars, expand_vars,
                   argv_vars>>

\* One iteration of the loop of execute_commands: an empty command is
\* skipped, any other is dispatched and recorded.  No Exception leaves
\* _process_single_command, so the `except Exception` of line 631 is
\* never entered.
ExecuteSub ==
    /\ pc = "multi"
    /\ mc_i < Len(mc_commands)
    /\ LET cmd == mc_commands[mc_i + 1] IN
       IF cmd = <<>>
       THEN /\ mc_i' = mc_i + 1
            /\ UNCHANGED <<pc, mc_results, dispatched, alias_vars>>
       ELSE \E r \in process_single_command(alias_manager, cmd) :
              /\ dispatched' = Append(dispatched, r.entry)
              /\ aliases' = r.am.aliases
              /\ aliases_file' = r.am.aliases_file
              /\ save_warned' = r.am.save_warned
              /\ ret' = r.am.ret
              /\ op' = r.am.op
              /\ op_name' = r.am.op_name
              /\ IF r.entry.outcome = "escaped"
                 THEN /\ pc' = "crashed"
                      /\ UNCHANGED <<mc_i, mc_results>>
                 ELSE /\ pc' = pc
                      /\ mc_i' = mc_i + 1
                      /\ mc_results' = Append(mc_results, [cmd |-> cmd, success |-> TRUE])
    /\ UNCHANGED <<user_input, last_input, reads, command_history, history_file, history_saves,
                   mc_commands, summary, split_vars, expand_vars, argv_vars>>

\* The end of execute_commands: the summary, then back to the prompt.
ExecuteSummary ==
    /\ pc = "multi"
    /\ mc_i = Len(mc_commands)
    /\ summary' = execute_summary(mc_results)
    /\ pc' = "prompt"
    /\ UNCHANGED <<user_input, last_input, reads, command_history, history_file, history_saves,
                   mc_commands, mc_i, mc_results, dispatched, alias_vars,
                   split_vars, expand_vars, argv_vars>>

\* The alias x -> a+b
PlusTable == [n \in {<<"x">>} |-> <<"a", "+", "b">>]

\* ConsoleInterface.__init__: the alias file and the history file are loaded.
InitConsole ==
    /\ pc = "prompt"
    /\ aliases_file \in {AbsentFile, OkFile(PlusTable)}
    /\ aliases = load_aliases(aliases_file)
    /\ save_warned = FALSE
    /\ op = "init"
    /\ op_name = <<>>
    /\ ret = FALSE
    /\ history_file \in {AbsentHistory, [state |-> "exists", lines |-> <<L_pwd>>],
                         [state |-> "unreadable", lines |-> <<L_pwd>>]}
    /\ command_history = load_history(history_file)
    /\ history_saves = <<>>
    /\ user_input = <<>>
    /\ last_input = [kind |-> "none", text |-> <<>>]
    /\ reads = 0
    /\ mc_commands = <<>>
    /\ mc_i = 0
    /\ mc_results = <<>>
    /\ summary = NoSummary
    /\ dispatched = <<>>
    /\ NoSplit
    /\ NoExpand
    /\ NoArgv

NextConsole == ReadLine \/ ProcessSingle \/ ExecuteSub \/ ExecuteSummary

SpecConsole == InitConsole /\ [][NextConsole]_vars

(***************************************************************************)
(* Reference notions used by the properties of the splitter                *)
(***************************************************************************)
Quotes == {"'", "\""}

Min(S) == CHOOSE x \in S : \A y \in S : x <= y

Max(S) == CHOOSE x \in S : \A y \in S : x >= y

NonSpace(s) == {k \in 1..Len(s) : s[k] # " "}

Trim(s) == IF NonSpace(s) = {} THEN <<>>
           ELSE SubSeq(s, Min(NonSpace(s)), Max(NonSpace(s)))

NoSpecial(s) == \A k \in 1..Len(s) : s[k] \notin {"+", "'", "\"", "\\"}

NoBackslash(s) == \A k \in 1..Len(s) : s[k] # "\\"

\* The pieces of s between separators that are neither quoted nor escaped,
\* as substrings of s (section 4.1 of the specification).
RECURSIVE RefSplit(_, _, _, _)
RefSplit(s, k, q, cur) ==
    IF k > Len(s) THEN <<cur>>
    ELSE LET c == s[k] IN
         IF c = "\\" /\ k < Len(s)
         THEN RefSplit(s, k + 2, q, cur \o <<c, s[k + 1]>>)
         ELSE IF c \in Quotes
         THEN RefSplit(s, k + 1,
                       IF q = "None" THEN c ELSE IF q = c THEN "None" ELSE q,
                       Append(cur, c))
         ELSE IF c = "+" /\ q = "None"
         THEN <<cur>> \o RefSplit(s, k + 1, q, <<>>)
         ELSE RefSplit(s, k + 1, q, Append(cur, c))

TrimmedPieces(s) ==
    LET ps == RefSplit(s, 1, "None", <<>>) IN [k \in 1..Len(ps) |-> Trim(ps[k])]

RECURSIVE JoinPlus(_)
JoinPlus(segs) ==
    IF segs = <<>> THEN <<>>
    ELSE IF Len(segs) = 1 THEN segs[1]
    ELSE segs[1] \o <<"+">> \o JoinPlus(Tail(segs))

NoBlankPiece(s) == \A k \in 1..Len(TrimmedPieces(s)) : TrimmedPieces(s)[k] # <<>>

\* The iteration about to run handles its character by the quote/separator
\* rules: it is neither the skipped character nor an escaping backslash.
ActiveChar ==
    /\ ~skip_next
    /\ ~(command_string[i + 1] = "\\" /\ i + 1 < Len(command_string))

(***************************************************************************)
(* Properties of parse_commands                                            *)
(***************************************************************************)
\* C1: a line with no '+', quote or backslash is returned as [trim(s)], or
\* as the empty list when trim(s) is empty.
C1_PlainLine ==
    (pc = "done" /\ NoSpecial(command_string)) =>
        commands = IF Trim(command_string) = <<>> THEN <<>>
                   ELSE <<Trim(command_string)>>

\* C2: a backslash followed by a character c contributes exactly one literal
\* c to the current segment: the backslash iteration appends c and the
\* iteration that skips c adds nothing, and neither ends a segment.
C2_EscapeOnce ==
    [][(pc = "scan" /\ i < Len(command_string)) =>
         /\ (~skip_next /\ command_string[i + 1] = "\\" /\ i + 1 < Len(command_string))
               => /\ current_command' = Append(current_command, command_string[i + 2])
                  /\ commands' = commands
         /\ skip_next => /\ current_command' = current_command
                         /\ commands' = commands]_vars

\* C3: inside a quoted region no iteration ends a segment; the region is
\* closed only by the quote character that opened it, the other quote
\* character is literal, and opening and closing quotes are kept.
C3_QuotedRegion ==
    [][(pc = "scan" /\ i < Len(command_string)) =>
         LET char == command_string[i + 1] IN
         /\ in_quotes => commands' = commands
         /\ (in_quotes /\ ~in_quotes') => (ActiveChar /\ char = quote_char)
         /\ (in_quotes /\ ActiveChar /\ char \in Quotes /\ char # quote_char)
               => /\ in_quotes' /\ quote_char' = quote_char
                  /\ current_command' = Append(current_command, char)
         /\ (in_quotes /\ ActiveChar /\ char = quote_char)
               => /\ ~in_quotes'
                  /\ current_command' = Append(current_command, char)
         /\ (~in_quotes /\ ActiveChar /\ char \in Quotes)
               => /\ in_quotes' /\ quote_char' = char
                  /\ current_command' = Append(current_command, char)]_vars

\* C3 witness: a '+' between an opening quote and its closing quote, the
\* whole line returned as one segment with both quotes.
C3_Witness ==
    /\ pc = "done"
    /\ commands = <<command_string>>
    /\ \E k \in 2..(Len(command_string) - 1) :
         /\ command_string[k] = "+"
         /\ command_string[k - 1] \in Quotes
         /\ command_string[k + 1] = command_string[k - 1]

\* C4: every emitted segment is non-empty and has no leading or trailing
\* whitespace.
C4_SegmentsTrimmedNonEmpty ==
    \A k \in 1..Len(commands) :
        /\ commands[k] # <<>>
        /\ commands[k][1] # " "
        /\ commands[k][Len(commands[k])] # " "

\* C5 as stated: for every line, joining the segments with '+' gives the
\* line with the whitespace around separators trimmed.
C5_RoundTrip ==
    pc = "done" => JoinPlus(commands) = JoinPlus(TrimmedPieces(command_string))

\* C5 amended: for a line with no backslash in which no piece between
\* separators is blank, the segments are the trimmed pieces in order, and
\* joining them with '+' gives the line with that whitespace trimmed.
C5_RoundTripAmended ==
    (pc = "done" /\ NoBackslash(command_string) /\ NoBlankPiece(command_string)) =>
        /\ commands = TrimmedPieces(command_string)
        /\ JoinPlus(commands) = JoinPlus(TrimmedPieces(command_string))

\* C5 witness: a line split in two with whitespace trimmed at a separator.
C5_Witness ==
    /\ pc = "done"
    /\ NoBackslash(command_string)
    /\ NoBlankPiece(command_string)
    /\ Len(commands) >= 2
    /\ JoinPlus(commands) # command_string

(***************************************************************************)
(* Reference notions used by the properties of the alias layer             *)
(***************************************************************************)
\* First whitespace-delimited token of a non-blank string.
FirstToken(c) ==
    LET a == Min(NonSpace(c))
        e == Max({k \in a..Len(c) : \A j \in a..k : c[j] # " "})
    IN SubSeq(c, a, e)

\* What follows the first token, without the whitespace around it.
Remainder(c) ==
    LET a == Min(NonSpace(c))
        e == Max({k \in a..Len(c) : \A j \in a..k : c[j] # " "})
        Q == {k \in NonSpace(c) : k > e}
    IN IF Q = {} THEN <<>> ELSE SubSeq(c, Min(Q), Max(NonSpace(c)))

\* One hop of expansion of c in table tbl, as section 4.2 words it.
OneHop(tbl, c) ==
    IF NonSpace(c) = {} THEN c
    ELSE IF FirstToken(c) \in DOMAIN tbl
    THEN IF Remainder(c) # <<>>
         THEN tbl[FirstToken(c)] \o <<" ">> \o Remainder(c)
         ELSE tbl[FirstToken(c)]
    ELSE c

\* The last operation changed the table and returned.
MutationCompleted(o, r) == (o \in {"add_alias", "remove_alias"} /\ r) \/ o = "unalias_all"

(***************************************************************************)
(* Properties of the alias layer                                           *)
(***************************************************************************)
\* C6: expand_alias(c) is replacement + " " + remainder (or the replacement
\* alone) when the first token of c is a key, c unchanged otherwise, and the
\* result is not expanded again inside the call.
C6_ExpandOneHop ==
    op = "expand_alias" => expanded = OneHop(aliases, command)

\* C6 witness: 'll <rest>' expanded to 'ls -la <rest>' while ls is a key too.
C6_Witness ==
    /\ op = "expand_alias"
    /\ NonSpace(command) # {}
    /\ FirstToken(command) = <<"ll">>
    /\ Remainder(command) # <<>>
    /\ {<<"ll">>, <<"ls">>} \subseteq DOMAIN aliases
    /\ aliases[<<"ll">>] = <<"ls", " ", "-la">>
    /\ expanded = <<"ls", " ", "-la", " ">> \o Remainder(command)

\* C7 as stated: expanding the result of expand_alias a second time returns
\* it unchanged.
C7_Idempotent ==
    op = "expand_alias" => expand_alias(aliases, expanded) = expanded

\* C7 amended: a second call leaves the first expansion unchanged when its
\* first token is not an alias key, and applies exactly one more hop when
\* it is.
C7_SecondCallOneHop ==
    op = "expand_alias" =>
        /\ (NonSpace(expanded) = {} \/ FirstToken(expanded) \notin DOMAIN aliases)
              => expand_alias(aliases, expanded) = expanded
        /\ (NonSpace(expanded) # {} /\ FirstToken(expanded) \in DOMAIN aliases)
              => expand_alias(aliases, expanded) =
                   IF Remainder(expanded) # <<>>
                   THEN aliases[FirstToken(expanded)] \o <<" ">> \o Remainder(expanded)
                   ELSE aliases[FirstToken(expanded)]

\* C7 witness: the first expansion starts with a token that is itself a key
\* and the second call expands it further.
C7_Witness ==
    /\ op = "expand_alias"
    /\ expanded # command
    /\ NonSpace(expanded) # {}
    /\ FirstToken(expanded) \in DOMAIN aliases
    /\ expand_alias(aliases, expanded) # expanded

\* C8: add_alias with the name 'alias' or 'unalias' returns False and leaves
\* the table and the file as they were.
C8_ReservedRejected ==
    [][(op' = "add_alias" /\ op_name' \in Reserved) =>
         /\ ret' = FALSE
         /\ aliases' = aliases
         /\ aliases_file' = aliases_file]_vars

\* C8 witness: a rejected add_alias('unalias', ...) on a non-empty table.
C8_Witness ==
    /\ op = "add_alias"
    /\ op_name = <<"unalias">>
    /\ ret = FALSE
    /\ DOMAIN aliases # {}
    /\ aliases_file = OkFile(aliases)

\* C9: in every reachable state of the table, after the startup load
\* included, neither 'alias' nor 'unalias' is a key.
C9_NoReservedKey ==
    DOMAIN aliases \cap Reserved = {}

\* C10 as stated: after every completed mutation the file holds exactly the
\* in-memory table.
C10_FileEqualsTable ==
    MutationCompleted(op, ret) => aliases_file = OkFile(aliases)

\* C10 amended: a completed mutation rewrites the file to the in-memory
\* table unless the write fails; then the warning is printed, the change
\* stays in memory and the file is left as it was or truncated.
C10_FileEqualsTableUnlessWarned ==
    [][MutationCompleted(op', ret') =>
         IF save_warned'
         THEN aliases_file' \in {aliases_file, CorruptFile}
         ELSE aliases_file' = OkFile(aliases')]_vars

\* C10 witness: an accepted add_alias whose save succeeded on a table that
\* now has two entries.
C10_Witness ==
    /\ op = "add_alias"
    /\ ret
    /\ ~save_warned
    /\ Cardinality(DOMAIN aliases) >= 2
    /\ aliases_file = OkFile(aliases)

\* C11: a table written by _save_aliases and read back by _load_aliases in
\* a fresh AliasManager has exactly the same key/value pairs.
C11_SaveLoadRoundTrip ==
    (MutationCompleted(op, ret) /\ ~save_warned) => load_aliases(aliases_file) = aliases

\* C11 witness: a saved table with a replacement that holds a quote and a
\* backslash, read back unchanged.
C11_Witness ==
    /\ op = "add_alias"
    /\ ret
    /\ ~save_warned
    /\ \E n \in DOMAIN aliases : \E k \in 1..Len(aliases[n]) : aliases[n][k] \in {"\"", "\\"}
    /\ load_aliases(aliases_file) = aliases

\* C12: constructing the AliasManager on a file that is missing, cannot be
\* read or does not parse completes with the empty table.
C12_CorruptFileGivesEmptyTable ==
    (op = "init" /\ (aliases_file.state # "exists" \/ ~json_load(aliases_file.data).ok))
        => aliases = EmptyTable

\* C12 witness: startup on a file cut off after at least one complete pair.
C12_Witness ==
    /\ op = "init"
    /\ \E t \in Tables : DOMAIN t # {} /\ aliases_file = CutFile(t)
    /\ aliases = EmptyTable

(***************************************************************************)
(* Properties of parse_args                                                *)
(***************************************************************************)
Buckets == {"commands", "files", "directories", "executables", "options", "scripts"}

\* An iteration of the loop of parse_args is about to run on CurTok.
ParseStep == pc = "parse" /\ arg_i < Len(args)

CurTok == args[arg_i + 1]

IsFlag(tok) == startswith(tok, "/") \/ startswith(tok, "-")

\* The step changes no bucket outside bs.
OnlyBuckets(bs) == \A c \in Buckets \ bs : result'[c] = result[c]

\* The token after CurTok exists and starts with neither '-' nor '/'.
NextEligible ==
    /\ arg_i + 2 <= Len(args)
    /\ args[arg_i + 2] # <<>>
    /\ args[arg_i + 2][1] \notin {"-", "/"}

\* Tokens accounted for by the buckets: items, option names and the values
\* taken by flag-commands and options.
Accounted(res) ==
    Len(res.commands)
    + Cardinality({k \in 1..Len(res.commands) : res.commands[k][2] # NoneVal})
    + Cardinality(DOMAIN res.options)
    + Cardinality({n \in DOMAIN res.options : res.options[n] # TrueVal})
    + Len(res.scripts) + Len(res.directories) + Len(res.files) + Len(res.executables)

\* C13: a flag-command or option takes the next token as its value if and
\* only if that token exists and starts with neither '-' nor '/'; a taken
\* token is skipped, otherwise the value is None / True and the next token
\* is the one the loop classifies next.
C13_Lookahead ==
    [][(ParseStep /\ IsFlag(CurTok)) =>
         /\ arg_i' = IF NextEligible THEN arg_i + 2 ELSE arg_i + 1
         /\ startswith(CurTok, "/") =>
               /\ result'.commands =
                    Append(result.commands,
                           <<Tail(CurTok), IF NextEligible THEN args[arg_i + 2] ELSE NoneVal>>)
               /\ OnlyBuckets({"commands"})
         /\ startswith(CurTok, "-") =>
               /\ CurTok \in DOMAIN result'.options
               /\ result'.options[CurTok] = IF NextEligible THEN args[arg_i + 2] ELSE TrueVal
               /\ OnlyBuckets({"options"})]_vars

\* C13 witness: '/p f -x': f is the value of /p and is in no path bucket,
\* -x has nothing after it and is True.
C13_Witness ==
    /\ pc = "parsed"
    /\ args = <<T_cmd, T_plain, T_opt>>
    /\ result.commands = <<<<Tail(T_cmd), T_plain>>>>
    /\ result.options[T_opt] = TrueVal
    /\ result.files = <<>> /\ result.executables = <<>> /\ result.directories = <<>>

\* C14: the rules apply in the order '/' prefix, '-' prefix, '.zetas'
\* suffix, existing directory, then regular file or fallback, and the first
\* rule that matches decides the bucket.
C14_RuleOrder ==
    [][ParseStep =>
         IF startswith(CurTok, "/")
         THEN Len(result'.commands) = Len(result.commands) + 1 /\ OnlyBuckets({"commands"})
         ELSE IF startswith(CurTok, "-")
         THEN CurTok \in DOMAIN result'.options /\ OnlyBuckets({"options"})
         ELSE IF endswith(CurTok, ".zetas")
         THEN result'.scripts = Append(result.scripts, CurTok) /\ OnlyBuckets({"scripts"})
         ELSE IF isdir(fs, CurTok)
         THEN result'.directories = Append(result.directories, CurTok)
              /\ OnlyBuckets({"directories"})
         ELSE \/ result'.files = Append(result.files, CurTok) /\ OnlyBuckets({"files"})
              \/ result'.executables = Append(result.executables, CurTok)
                 /\ OnlyBuckets({"executables"})]_vars

\* C14 witness: 's.zetas /p' where both are existing directories: a script
\* and a flag-command, no directory.
C14_Witness ==
    /\ pc = "parsed"
    /\ args = <<T_script, T_cmd>>
    /\ fs[T_script] = "dir" /\ fs[T_cmd] = "dir"
    /\ result.scripts = <<T_script>>
    /\ result.commands = <<<<Tail(T_cmd), NoneVal>>>>
    /\ result.directories = <<>>

\* C15 as stated: an existing directory whose name ends with '.zetas' goes
\* to the directories bucket, not to scripts.
C15_DirBeforeSuffix ==
    [][(ParseStep /\ ~IsFlag(CurTok) /\ endswith(CurTok, ".zetas") /\ isdir(fs, CurTok)) =>
         /\ result'.directories = Append(result.directories, CurTok)
         /\ result'.scripts = result.scripts]_vars

\* C15 amended: the suffix test has precedence: an existing directory whose
\* name ends with '.zetas' goes to the scripts bucket, not to directories.
C15_SuffixBeforeDir ==
    [][(ParseStep /\ ~IsFlag(CurTok) /\ endswith(CurTok, ".zetas") /\ isdir(fs, CurTok)) =>
         /\ result'.scripts = Append(result.scripts, CurTok)
         /\ result'.directories = result.directories]_vars

\* C15 witness: the directory 's.zetas' alone on the command line, parsed as
\* a script.
C15_Witness ==
    /\ pc = "parsed"
    /\ args = <<T_script>>
    /\ fs[T_script] = "dir"
    /\ result.scripts = <<T_script>>
    /\ result.directories = <<>>

\* C16: a token that is not an existing path and is neither a flag nor a
\* script goes to executables when its extension is an executable one, and
\* to files otherwise.
C16_NonexistentHeuristic ==
    [][(ParseStep /\ ~IsFlag(CurTok) /\ ~endswith(CurTok, ".zetas") /\ ~exists(fs, CurTok)) =>
         IF splitext(CurTok) \in executable_exts
         THEN /\ result'.executables = Append(result.executables, CurTok)
              /\ result'.files = result.files
         ELSE /\ result'.files = Append(result.files, CurTok)
              /\ result'.executables = result.executables]_vars

\* C17: every token of argv is accounted for exactly once by the buckets.
C17_EveryTokenOnce ==
    pc = "parsed" => Accounted(result) = Len(args)

(***************************************************************************)
(* Reference notions used by the properties of execute_in_order            *)
(***************************************************************************)
CategoryRank ==
    [commands |-> 1, scripts |-> 2, files |-> 3, directories |-> 4,
     executables |-> 5]

ExecCategories == DOMAIN CategoryRank

\* The positions of argv that hold an item or an option name, not a value
\* taken by the flag before it.
RECURSIVE KeyPositions(_, _)
KeyPositions(a, k) ==
    IF k > Len(a) THEN <<>>
    ELSE <<k>> \o KeyPositions(a, IF IsFlag(a[k]) /\ k + 1 <= Len(a)
                                     /\ ~IsFlag(a[k + 1])
                                  THEN k + 2 ELSE k + 1)

\* The item made of the token at position p of argv.
ItemAt(p) ==
    IF startswith(args[p], "/")
    THEN <<Tail(args[p]),
           IF p + 1 <= Len(args) /\ ~IsFlag(args[p + 1]) THEN args[p + 1]
           ELSE NoneVal>>
    ELSE args[p]

\* The items of category c in the order of argv.
ArgvItems(c) ==
    LET ps == SelectSeq(KeyPositions(args, 1),
                        LAMBDA p : classify(fs0, args[p]) = c)
    IN [n \in 1..Len(ps) |-> ItemAt(ps[n])]

\* The items of category c handed to the handler so far, in call order.
HandledOf(c) ==
    LET hs == SelectSeq(handled, LAMBDA h : h.category = c)
    IN [n \in 1..Len(hs) |-> hs[n].item]

IsPrefix(s, t) == Len(s) <= Len(t) /\ \A n \in 1..Len(s) : s[n] = t[n]

ItemCount(res) ==
    Len(res.commands) + Len(res.scripts) + Len(res.files)
    + Len(res.directories) + Len(res.executables)

RecognizedOptions == {T_console, T_bash}

(***************************************************************************)
(* Properties of execute_in_order                                          *)
(***************************************************************************)
\* C18: handlers are called in the category order flag-commands, scripts,
\* files, directories, executables whatever the order of argv: when an item
\* is handled every item of every earlier category has been handled, and the
\* items of one category are handled in their argv order.
C18_CategoryOrder ==
    /\ \A j \in 1..Len(handled) : \A k \in 1..Len(handled) :
          j < k => CategoryRank[handled[j].category] <= CategoryRank[handled[k].category]
    /\ \A c \in ExecCategories : IsPrefix(HandledOf(c), ArgvItems(c))
    /\ \A k \in 1..Len(handled) : \A c \in ExecCategories :
          CategoryRank[c] < CategoryRank[handled[k].category]
             => Len(HandledOf(c)) = Len(ArgvItems(c))

\* A file precedes a script in argv; the script was handled first.
C18_Witness ==
    /\ pc = "returned"
    /\ Len(args) >= 2
    /\ args[1] = T_plain
    /\ args[2] = T_script
    /\ Len(handled) >= 2
    /\ handled[1].category = "scripts"
    /\ handled[2].category = "files"

\* C19: execute_in_order is fault-isolating per item: whatever a handler
\* does, the call runs to completion and returns the result list, and every
\* item of every bucket has been handed to its handler by then.
C19_FaultIsolating ==
    /\ pc # "raised"
    /\ pc = "returned" => Len(handled) = ItemCount(result)

\* C20: the returned list has one result per classified item, whatever
\* plain options are present.
C20_LengthEqualsItems ==
    pc = "returned" => Len(results) = ItemCount(result)

\* C20 (amended): the returned list has one result per item of the five
\* executed categories, whether its handler returned True, returned False or
\* raised an Exception, plus one result per recognized option (-console,
\* -bash) present; an option that is not recognized adds none.
C20_LengthWithOptions ==
    pc = "returned" =>
        Len(results) = ItemCount(result)
                       + Cardinality(DOMAIN result.options \cap RecognizedOptions)

\* A returned list with a failed item, -console and an unrecognized option.
C20_Witness ==
    /\ pc = "returned"
    /\ T_console \in DOMAIN result.options
    /\ T_opt \in DOMAIN result.options
    /\ \E n \in 1..Len(results) : ~results[n].success

\* The results that report an option.
OptionResults(rs) == {n \in 1..Len(rs) : rs[n].label.head = "option"}

\* The configuration after the recognized options present have been applied.
ConfigAfterOptions(cfg, opts) ==
    [interface_mode |-> IF T_console \in DOMAIN opts THEN "console"
                        ELSE cfg.interface_mode,
     enable_bash_syntax |-> IF T_bash \in DOMAIN opts THEN TRUE
                            ELSE cfg.enable_bash_syntax]

C26_ClassifiedOnce ==
    [][/\ pc = "exec" => arg_i = Len(args)
       /\ result' = result
       /\ result = parse_args(parse_args_init, args, fs0, 0)
       /\ \A c \in ExecCategories : IsPrefix(HandledOf(c)', result[c])]_vars

\* A token classified as a file was handed to the file handler although the
\* path had become a directory by then.
C26_Witness ==
    /\ pc = "returned"
    /\ \E k \in 1..Len(handled) :
          /\ handled[k].category = "files"
          /\ handled[k].item = T_plain
          /\ classify(fs, T_plain) = "directories"
          /\ classify(fs0, T_plain) = "files"

(***************************************************************************)
(* Quote state of a line, by section 4.1 of the specification              *)
(***************************************************************************)
\* The quote state (None, ', ") after the first n characters of s, a
\* backslash and the character after it being skipped as a pair.
RECURSIVE RefQuote(_, _, _, _)
RefQuote(s, k, q, n) ==
    IF k > n THEN q
    ELSE IF s[k] = "\\" /\ k < Len(s) THEN RefQuote(s, k + 2, q, n)
    ELSE IF s[k] \in Quotes
    THEN RefQuote(s, k + 1, IF q = "None" THEN s[k] ELSE IF q = s[k] THEN "None" ELSE q, n)
    ELSE RefQuote(s, k + 1, q, n)

QuoteAfter(s, n) == RefQuote(s, 1, "None", n)

\* A quote is opened in s and never closed.
Unterminated(s) == QuoteAfter(s, Len(s)) # "None"

\* The position of the quote that opens the region left open.
OpenPos(s) ==
    Max({k \in 1..Len(s) : QuoteAfter(s, k - 1) = "None" /\ QuoteAfter(s, k) # "None"})

IsSuffix(s, t) ==
    Len(s) <= Len(t) /\ \A n \in 1..Len(s) : s[n] = t[Len(t) - Len(s) + n]

Count(s, c) == Cardinality({k \in 1..Len(s) : s[k] = c})

\* The iteration about to run is on the backslash of an escaped pair.
EscapingStep ==
    /\ ~skip_next
    /\ command_string[i + 1] = "\\"
    /\ i + 1 < Len(command_string)

\* C27: a quote character escaped by a backslash never opens or closes a
\* quoted region: neither iteration of the escaped pair changes the quote
\* state or ends a segment, so the quote state is always the one given by
\* the quote characters that are not escaped; an unquoted '+' with text
\* before it still splits and a '+' inside a region does not.
C27_EscapedQuoteKeepsState ==
    [][(pc = "scan" /\ i < Len(command_string) /\ i' = i + 1) =>
         LET char == command_string[i + 1] IN
         /\ (EscapingStep /\ command_string[i + 2] \in Quotes)
               => /\ in_quotes' = in_quotes
                  /\ quote_char' = quote_char
                  /\ commands' = commands
         /\ (skip_next /\ char \in Quotes)
               => /\ in_quotes' = in_quotes
                  /\ quote_char' = quote_char
                  /\ commands' = commands
         /\ quote_char' = QuoteAfter(command_string, i')
         /\ in_quotes' = (quote_char' # "None")
         /\ (ActiveChar /\ char = "+" /\ ~in_quotes /\ current_command # <<>>)
               => Len(commands') = Len(commands) + 1
         /\ (char = "+" /\ in_quotes) => commands' = commands]_vars

\* An escaped quote, then an unquoted '+' that splits the line in two.
C27_Witness ==
    /\ pc = "done"
    /\ Len(command_string) >= 4
    /\ command_string[1] = "\\"
    /\ command_string[2] \in Quotes
    /\ command_string[3] = "+"
    /\ command_string[4] \notin {" ", "+"}
    /\ Len(commands) = 2
    /\ ~in_quotes

\* C28 as stated: a line with an unterminated quote is returned without
\* error, no segment ends after the opening quote, and the final segment
\* ends with every character from the opening quote to the end of the line.
C28_UnterminatedQuote ==
    [][(pc = "scan" /\ Unterminated(command_string)) =>
         LET q == OpenPos(command_string)
             rest == SubSeq(command_string, q, Len(command_string))
         IN /\ (i' = i + 1 /\ i >= q) => commands' = commands
            /\ pc' = "done" =>
                 /\ Len(commands') = Len(commands) + 1
                 /\ IsSuffix(rest, commands'[Len(commands')])]_vars

\* C28 (amended): a line with an unterminated quote is returned without
\* error and no segment ends after the opening quote; the final segment
\* holds the unmatched quote and every '+' that follows it, and when no
\* backslash follows the opening quote it ends with the text from the
\* opening quote to the end of the line less its trailing whitespace.
C28_UnterminatedQuoteTrimmed ==
    [][(pc = "scan" /\ Unterminated(command_string)) =>
         LET q == OpenPos(command_string)
             rest == SubSeq(command_string, q, Len(command_string))
         IN /\ (i' = i + 1 /\ i >= q) => commands' = commands
            /\ pc' = "done" =>
                 /\ Len(commands') = Len(commands) + 1
                 /\ Count(commands'[Len(commands')], command_string[q]) >= 1
                 /\ Count(commands'[Len(commands')], "+") >= Count(rest, "+")
                 /\ NoBackslash(rest) => IsSuffix(Trim(rest), commands'[Len(commands')])]_vars

\* A '+' and trailing whitespace after a quote that is never closed: one
\* final segment, trimmed.
C28_Witness ==
    /\ pc = "done"
    /\ Unterminated(command_string)
    /\ NoBackslash(command_string)
    /\ command_string[Len(command_string)] = " "
    /\ \E k \in (OpenPos(command_string) + 1)..Len(command_string) :
          command_string[k] = "+"
    /\ Len(commands) = 1

(***************************************************************************)
(* The console: built-in matching, the multi-command path and the          *)
(* interactive loop                                                        *)
(***************************************************************************)

\* The command is the built-in name alone, or the name followed by a space.
SpacedBuiltin(c, name) ==
    lower(c) = name \/ has_prefix(lower(c), name \o <<" ">>)

\* C22: a command is routed to a built-in's handler only when it equals the
\* built-in name or starts with the name followed by a space, both
\* case-insensitively; a command that merely begins with the letters of a
\* built-in name goes to external-process execution.  Stated for the listing
\* handler: a command routed to _list_files is `ls` or `dir`, alone or
\* followed by a space.
C22_PrefixNeedsSpace ==
    \A k \in 1..Len(dispatched) :
        dispatched[k].route = "_list_files"
            => \/ SpacedBuiltin(dispatched[k].command, <<"ls">>)
               \/ SpacedBuiltin(dispatched[k].command, <<"dir">>)

\* The number of dispatched sub-commands whose action succeeded.
SucceededCount == Cardinality({k \in 1..Len(dispatched) : dispatched[k].outcome = "done"})

\* C23: in execute_commands a sub-command whose action fails is recorded
\* with success = false, and the summary's success count is the number of
\* sub-commands whose action did not fail.
C23_FailureRecorded ==
    /\ \A k \in 1..Len(mc_results) :
           k <= Len(dispatched)
               => mc_results[k].success = (dispatched[k].outcome = "done")
    /\ summary.shown => summary.success_count = SucceededCount

\* C24: whatever happens while a command is dispatched, run_interactive
\* goes back to the prompt: a step that leaves the dispatch of a line leads
\* to the prompt.
C24_BackToPrompt ==
    [][(pc \in {"single", "multi"}) => (pc' \in {"single", "multi", "prompt"})]_vars

\* The input is a line whose trimmed text is exit, quit or q in any case.
IsExitLine(inp) == inp.kind = "line" /\ lower(strip(inp.text)) \in ExitWords

\* C25: the loop ends cleanly, with the history saved and nothing dispatched
\* for the line, exactly when the trimmed line is exit, quit or q in any
\* case or the input has ended; an interrupt at the prompt keeps the session
\* at the prompt, dispatches nothing and adds no history entry.
C25_CleanEnd ==
    [][pc = "prompt" =>
         /\ (pc' = "ended") <=> (last_input'.kind = "eof" \/ IsExitLine(last_input'))
         /\ pc' = "ended" =>
              /\ dispatched' = dispatched
              /\ Len(history_saves') > Len(history_saves)
              /\ history_saves'[Len(history_saves')] = "ok" =>
                     history_file' = [state |-> "exists",
                                      lines |-> last_n(command_history', HistoryCap)]
         /\ last_input'.kind = "interrupt" =>
              /\ pc' = "prompt"
              /\ dispatched' = dispatched
              /\ command_history' = command_history
              /\ history_file' = history_file]_vars

\* The session has ended on an exit word typed with capitals and spaces
\* around it, and the history file holds the line.
C25_Witness ==
    /\ pc = "ended"
    /\ last_input.text = L_exit_padded
    /\ history_saves = <<"fail", "ok">>
    /\ history_file.lines = command_history
    /\ command_history[Len(command_history)] = <<"Exit">>

\* The non-empty sub-commands of the line, in order.
NonEmptySubs ==
    LET NonEmpty(c) == c # <<>> IN SelectSeq(mc_commands, NonEmpty)

\* C29: for a line with '+', every non-empty sub-command the splitter
\* produced is dispatched exactly once, in order, empty ones never, and
\* every dispatched sub-command has exactly one entry in the result list.
C29_EachSubOnce ==
    mc_commands # <<>> =>
        /\ Len(dispatched) <= Len(NonEmptySubs)
        /\ \A k \in 1..Len(dispatched) : dispatched[k].sub = NonEmptySubs[k]
        /\ Len(mc_results) = Len(dispatched)
        /\ \A k \in 1..Len(mc_results) : mc_results[k].cmd = dispatched[k].sub
        /\ pc # "multi" => Len(dispatched) = Len(NonEmptySubs)

\* The sub-command the next call of _process_single_command receives.
NextSub == IF pc = "single" THEN user_input ELSE mc_commands[mc_i + 1]

\* What one dispatch does under C30.
ExpandedDispatch ==
    pc \in {"single", "multi"} /\ dispatched' # dispatched =>
        LET e == dispatched'[Len(dispatched')] IN
        /\ dispatched' = Append(dispatched, e)
        /\ e.sub = NextSub
        /\ e.command = expand_alias(aliases, e.sub)
        /\ e.route = process_route(e.command)
        /\ (<<"x">> \in DOMAIN aliases /\ aliases[<<"x">>] = <<"a", "+", "b">>
                /\ e.sub = <<"x">>)
               => e.command = <<"a", "+", "b">> /\ e.route = "external"
        /\ (<<"pwd">> \in DOMAIN aliases /\ aliases[<<"pwd">>] = <<"ls">>
                /\ e.sub = <<"pwd">>)
               => e.route = "_list_files"

\* C30: a dispatch expands the alias of its sub-command once, after the
\* line was split, and matches the built-in chain against the whole expanded
\* text: one call, one command, whatever '+' the replacement holds.  An alias
\* named like a built-in therefore replaces it.
C30_ExpandAfterSplit == [][ExpandedDispatch]_vars

\* The line `x + pwd` under the alias x -> a+b: two sub-commands, two
\* dispatches, the first of the text a+b as one external command.
C30_Witness ==
    /\ user_input = L_x_pwd
    /\ Len(dispatched) = 2
    /\ dispatched[1].sub = <<"x">>
    /\ dispatched[1].command = <<"a", "+", "b">>
    /\ dispatched[1].route = "external"
    /\ dispatched[2].route = "pwd"
    /\ Len(mc_results) = 2

====
